---- MODULE Spec2Model ----
(***************************************************************************)
(* Memory-management core of the rustbelt kernel:                         *)
(*   - the buddy tree of src/src/memory/buddy.rs,                          *)
(*   - the frame allocator facade of src/src/memory/alloc.rs,              *)
(*   - the recursive page-table mapper of src/src/memory/paging/.          *)
(* Four specifications share the variables:                                *)
(*   Spec       the buddy tree from Buddy::new under allocate and the      *)
(*              matching free;                                             *)
(*   SpecBoot   Buddy::mark_used at boot, then allocate and free;          *)
(*   SpecAllocator  Allocator::new, then Allocator::allocate;              *)
(*   SpecPaging the mapper, the temporary page and ActivePageTable::with.  *)
(***************************************************************************)
EXTENDS Integers, Sequences, FiniteSets, TLC

VARIABLES tree, live, lost, last, pre_tree, halted, marked, booted, alloc, build,
          walk,
          mem, cr3, pool, stash, scratch, inactive, ppc, steps, plast, trace,
          ba,
          writer, wlast

buddy_vars ==
    <<tree, live, lost, last, pre_tree, halted, marked, booted, alloc, build,
      walk>>

paging_vars ==
    <<mem, cr3, pool, stash, scratch, inactive, ppc, steps, plast, trace>>

byte_vars == <<ba>>

vga_vars == <<writer, wlast>>

vars == <<buddy_vars, paging_vars, byte_vars, vga_vars>>

(***************************************************************************)
(* Bounds of the model.  The kernel is built with LEVELS = 10; the tree    *)
(* code is parametric in it and is checked here on a smaller tree.         *)
(***************************************************************************)
LEVELS == 3

MaxLive == 3

MaxLiveBoot == 2

\* frames the FrameAllocator of the paging specification can hand out
MaxPool == 4

\* Mapper calls made by the closure of one ActivePageTable::with
MaxClosureSteps == 2

(***************************************************************************)
(* buddy.rs                                                                *)
(***************************************************************************)
RECURSIVE Pow2(_)
Pow2(k) == IF k = 0 THEN 1 ELSE 2 * Pow2(k - 1)

\* const SIZE: usize = (1 << LEVELS + 1) - 1;
SIZE == Pow2(LEVELS + 1) - 1

Node == {"Unused", "Used", "Split", "Full"}

\* Buddy::new: tree: [Node::Unused; SIZE]
NewTree == [i \in 0..(SIZE - 1) |-> "Unused"]

\* usize::next_power_of_two
RECURSIVE NextPow2From(_, _)
NextPow2From(p, n) == IF p >= n THEN p ELSE NextPow2From(2 * p, n)

next_power_of_two(n) == NextPow2From(1, n)

\* the while loop of log_base_2, after the first shift
RECURSIVE Log2Loop(_, _)
Log2Loop(find_msb_bit, exp) ==
    IF find_msb_bit > 0 THEN Log2Loop(find_msb_bit \div 2, exp + 1) ELSE exp

log_base_2(requested_frames) == Log2Loop(requested_frames \div 2, 0)

get_level_from_num_frames(num_frames) ==
    LET requested_frames == IF num_frames = 0 THEN 1
                            ELSE next_power_of_two(num_frames)
    IN  log_base_2(requested_frames)

\* (index + 1) / 2 - 1 on usize; callers test for index = 0 where the code does
ParentOf(index) == (index + 1) \div 2 - 1

\* Recompute without the both-children-Unused branch.
Recompute_no_unused(t, index) ==
    LET left_child == index * 2 + 1
        right_child == index * 2 + 2
    IN  IF t[left_child] \in {"Full", "Used"} /\ t[right_child] \in {"Full", "Used"}
        THEN "Full"
        ELSE "Split"

\* One node of update_parents: the state recomputed from the two children.
Recompute(t, index) ==
    LET left_child == index * 2 + 1
        right_child == index * 2 + 2
        left_child_used_or_full == t[left_child] \in {"Full", "Used"}
        right_child_used_or_full == t[right_child] \in {"Full", "Used"}
    IN  IF left_child_used_or_full /\ right_child_used_or_full THEN "Full"
        ELSE IF t[left_child] = "Unused" /\ t[right_child] = "Unused" THEN "Unused"
        ELSE "Split"

RECURSIVE update_parents(_, _)
update_parents(t, index) ==
    LET t1 == [t EXCEPT ![index] = Recompute(t, index)]
    IN  IF index = 0 THEN t1 ELSE update_parents(t1, ParentOf(index))

update_children_skipped(t, index) == t

RECURSIVE update_children(_, _)
update_children(t, index) ==
    LET left_child == index * 2 + 1
        right_child == index * 2 + 2
    IN  IF left_child > SIZE - 1 \/ right_child > SIZE - 1 THEN t
        ELSE LET t1 == update_children([t EXCEPT ![left_child] = t[index]], left_child)
                 t2 == update_children([t1 EXCEPT ![right_child] = t1[index]], right_child)
             IN  t2

\* The frame offset without the shift by the node's level.
FrameNumber_no_shift(index, current_level) ==
    index - (Pow2(LEVELS - current_level) - 1)

\* Calculate frame offset based on level (allocate, after the loop)
FrameNumber(index, current_level) ==
    LET currrent_level_offset == Pow2(LEVELS - current_level) - 1
        level_offset == index - currrent_level_offset
    IN  level_offset * 1 * Pow2(current_level)

\* The level-match branch of allocate taking an Unused node.  At index 0 the
\* argument (index + 1) / 2 - 1 of update_parents is 0 - 1 on usize: a panic
\* in a checked build, and in a wrapping build an index far outside the tree,
\* whose bounds check panics too.  The node is already written Used by then.
MatchNode(t, index, current_level) ==
    LET t1 == [t EXCEPT ![index] = "Used"]
    IN  IF index = 0
        THEN [panic |-> TRUE, ret |-> -1, tree |-> t1]
        ELSE [panic |-> FALSE, ret |-> FrameNumber(index, current_level),
              tree |-> update_children(update_parents(t1, ParentOf(index)), index)]

\* The 'forward and 'backward loops of allocate.
RECURSIVE Forward(_, _, _, _), Backward(_, _, _, _)
Forward(t, index, current_level, requested_level) ==
    LET has_buddy == index % 2 = 1
    IN  IF current_level # requested_level
        THEN CASE t[index] \in {"Used", "Full"} ->
                    IF has_buddy
                    THEN Forward(t, index + 1, current_level, requested_level)
                    ELSE Backward(t, index, current_level, requested_level)
               [] t[index] = "Unused" ->
                    Forward([t EXCEPT ![index] = "Split"], index * 2 + 1,
                            current_level - 1, requested_level)
               [] t[index] = "Split" ->
                    Forward(t, index * 2 + 1, current_level - 1, requested_level)
        ELSE IF t[index] = "Unused"
             THEN MatchNode(t, index, current_level)
             ELSE IF has_buddy
                  THEN Forward(t, index + 1, current_level, requested_level)
                  ELSE Backward(t, index, current_level, requested_level)

Backward(t, index, current_level, requested_level) ==
    IF index = 0
    THEN [panic |-> FALSE, ret |-> -1, tree |-> t]
    ELSE LET up == ParentOf(index)
             has_buddy_inner == up % 2 = 1
         IN  IF has_buddy_inner
             THEN Forward(t, up + 1, current_level + 1, requested_level)
             ELSE Backward(t, up, current_level + 1, requested_level)

\* Buddy::allocate: [panic, ret, tree]; ret = -1 is the failure sentinel.
allocate(t, num_frames) ==
    LET requested_level == get_level_from_num_frames(num_frames)
    IN  IF requested_level > LEVELS
        THEN [panic |-> FALSE, ret |-> -1, tree |-> t]
        ELSE Forward(t, 0, LEVELS, requested_level)

RECURSIVE free_and_combine(_, _)
free_and_combine(t, index) ==
    LET t1 == [t EXCEPT ![index] = "Unused"]
    IN  IF index = 0 THEN t1
        ELSE LET has_right_buddy == index % 2 = 1
                 other_node == IF has_right_buddy THEN index + 1 ELSE index - 1
             IN  IF t1[other_node] = "Unused"
                 THEN free_and_combine(t1, ParentOf(index))
                 ELSE t1

\* free without the update_parents call after free_and_combine.
free_no_update_parents(t, num_frames, frame_number) ==
    LET requested_level == get_level_from_num_frames(num_frames)
        index_offset == (Pow2(LEVELS - requested_level) - 1)
                        + frame_number \div Pow2(requested_level)
    IN  [panic |-> index_offset = 0,
         tree |-> update_children(free_and_combine(t, index_offset), index_offset)]

\* Buddy::free: [panic, tree].  The panics are the explicit range check and,
\* for index_offset = 0, the usize underflow of (index_offset + 1) / 2 - 1.
free(t, num_frames, frame_number) ==
    LET requested_level == get_level_from_num_frames(num_frames)
        level_offset == frame_number \div Pow2(requested_level)
        requested_level_offset ==
            IF requested_level > LEVELS THEN 0
            ELSE Pow2(LEVELS - requested_level) - 1
        index_offset == requested_level_offset + level_offset
    IN  IF requested_level > LEVELS \/ index_offset > SIZE - 1
        THEN [panic |-> TRUE, tree |-> t]
        ELSE LET t1 == free_and_combine(t, index_offset)
             IN  IF index_offset = 0
                 THEN [panic |-> TRUE, tree |-> t1]
                 ELSE [panic |-> FALSE,
                       tree |-> update_children(
                                    update_parents(t1, ParentOf(index_offset)),
                                    index_offset)]

\* The parent mark_used refreshes after writing leaf index_offset + n: the
\* code passes (index_offset + 1) / 2 - 1, the parent of the FIRST leaf.
MarkedParent(index_offset, n) == ParentOf(index_offset)

\* The body of the for loop of mark_used, iterations n .. num_frames - 1.
RECURSIVE MarkLoop(_, _, _, _)
MarkLoop(t, index_offset, n, num_frames) ==
    IF n >= num_frames THEN [panic |-> FALSE, tree |-> t]
    ELSE IF index_offset + n > SIZE - 1 THEN [panic |-> TRUE, tree |-> t]
    ELSE LET t1 == [t EXCEPT ![index_offset + n] = "Used"]
             has_buddy == (index_offset + n) % 2 = 1
             t2 == IF ~has_buddy
                   THEN update_parents(t1, MarkedParent(index_offset, n))
                   ELSE t1
         IN  MarkLoop(t2, index_offset, n + 1, num_frames)

\* Buddy::mark_used: [panic, tree]
mark_used(t, num_frames, frame_number) ==
    LET last_level_offset == Pow2(LEVELS) - 1
        index_offset == last_level_offset + frame_number
    IN  MarkLoop(t, index_offset, 0, num_frames)

(***************************************************************************)
(* State of the buddy specifications.                                      *)
(*   tree      Buddy.tree                                                  *)
(*   live      the allocations handed out and not yet freed: [o, n]        *)
(*   lost      the blocks Buddy::allocate took inside Allocator::allocate  *)
(*             for which the caller got None                               *)
(*   last      the last call and what it returned                          *)
(*   pre_tree  the tree before the last allocate (kept over the free that  *)
(*             undoes it)                                                  *)
(*   halted    the kernel panicked (panic_fmt never returns)               *)
(*   marked    the frames pinned by mark_used                              *)
(*   booted    number of mark_used calls made                              *)
(*   alloc     the Allocator: whether Allocator::new ran, start and end    *)
(*   build     whether the build checks integer overflow ("debug": an      *)
(*             overflow panics) or wraps ("release")                       *)
(*   walk      the position of a Buddy::allocate in progress: which loop   *)
(*             it is in, index, current_level, requested_level             *)
(***************************************************************************)
\* The sizes requested: 0, the powers of two up to the whole arena, 3 (which
\* rounds up to 4) and one more than the arena.
Sizes == {0, 3} \cup {Pow2(k) : k \in 0..LEVELS} \cup {Pow2(LEVELS) + 1}

Frames == 0..(Pow2(LEVELS) - 1)

\* Sum of the rounded sizes 2^req_level of a set of allocations
RECURSIVE LiveSum(_)
LiveSum(S) ==
    IF S = {} THEN 0
    ELSE LET a == CHOOSE x \in S : TRUE
         IN  Pow2(get_level_from_num_frames(a.n)) + LiveSum(S \ {a})

\* last: op the call, n and o its arguments, ret what Buddy::allocate
\* returned, undo whether a free undid the allocate right before it, dup
\* whether allocate returned a block that was already live, budget the
\* rounded sizes live before the call, opt and frame the Option<Frame> of
\* Allocator::allocate ("panic": its own arithmetic panicked, "buddy_panic":
\* Buddy::allocate did).
NoFrame == <<0, 0, 0, 0>>

NoCall == [op |-> "none", n |-> 0, o |-> 0, ret |-> 0, undo |-> FALSE,
           dup |-> FALSE, budget |-> 0, opt |-> "", frame |-> NoFrame]

NoAllocator == [made |-> FALSE, start |-> 0, end |-> 0]

Builds == {"debug", "release"}

NoWalk == [pc |-> "idle", n |-> 0, index |-> 0, current_level |-> 0,
           requested_level |-> 0, ret |-> 0]

InitBuddy ==
    /\ walk = NoWalk
    /\ tree = NewTree
    /\ live = {}
    /\ lost = {}
    /\ last = NoCall
    /\ pre_tree = NewTree
    /\ halted = FALSE
    /\ marked = {}
    /\ booted = 0
    /\ alloc = NoAllocator
    /\ build = "release"

\* The number of blocks taken from the tree stays below the bound of the
\* specification: MaxLive from a fresh tree, MaxLiveBoot after mark_used.
Room == Cardinality(live) + Cardinality(lost)
            < (IF booted = 0 THEN MaxLive ELSE MaxLiveBoot)

\* A call of Buddy::allocate(num_frames)
Allocate(num_frames) ==
    /\ ~halted
    /\ \E r \in {allocate(tree, num_frames)} :
        /\ r.panic \/ r.ret < 0 \/ Room
        /\ tree' = r.tree
        /\ halted' = r.panic
        /\ pre_tree' = tree
        /\ last' = [NoCall EXCEPT !.op = "allocate", !.n = num_frames,
                      !.ret = r.ret, !.budget = LiveSum(live),
                      !.dup = (~r.panic /\ r.ret >= 0
                               /\ [o |-> r.ret, n |-> num_frames] \in live)]
        /\ live' = IF ~r.panic /\ r.ret >= 0
                   THEN live \cup {[o |-> r.ret, n |-> num_frames]}
                   ELSE live
        /\ UNCHANGED <<lost, marked, booted, alloc, build>>
    /\ UNCHANGED <<walk, paging_vars, byte_vars, vga_vars>>

\* A call of Buddy::free(a.n, a.o) for a live allocation a ("usage of free
\* must match up to allocate")
Free(a) ==
    /\ ~halted
    /\ a \in live
    /\ \E r \in {free(tree, a.n, a.o)} :
       \E undoes \in {last.op = "allocate" /\ last.ret = a.o /\ last.n = a.n} :
        /\ tree' = r.tree
        /\ halted' = r.panic
        /\ live' = live \ {a}
        /\ pre_tree' = IF undoes THEN pre_tree ELSE r.tree
        /\ last' = [NoCall EXCEPT !.op = "free", !.n = a.n, !.undo = undoes]
        /\ UNCHANGED <<lost, marked, booted, alloc, build>>
    /\ UNCHANGED <<walk, paging_vars, byte_vars, vga_vars>>

\* frame numbers past the last frame of the arena
OutFrames == {Pow2(LEVELS), Pow2(LEVELS) + 1, Pow2(LEVELS + 1)}

\* A call of Buddy::free(num_frames, frame_number) with a frame number
\* outside the arena
FreeOutside(num_frames, frame_number) ==
    /\ ~halted
    /\ \E r \in {free(tree, num_frames, frame_number)} :
        /\ tree' = r.tree
        /\ halted' = r.panic
        /\ last' = [NoCall EXCEPT !.op = "free_outside", !.n = num_frames,
                      !.o = frame_number]
    /\ UNCHANGED <<live, lost, pre_tree, marked, booted, alloc, build>>
    /\ UNCHANGED <<walk, paging_vars, byte_vars, vga_vars>>

(***************************************************************************)
(* alloc.rs.  usize and isize are 64 bits wide; a word is kept as four     *)
(* 16-bit limbs, least significant first, so that the wrap-around of       *)
(* `as usize`, + and * is computed exactly.                                *)
(***************************************************************************)
Limb == 256 * 256

PAGE_SIZE == 4096

\* a natural below 2^31 as a word
U64(n) == <<n % Limb, (n \div Limb) % Limb, 0, 0>>

\* `x as usize` for an isize x: two's complement, -1 is 2^64 - 1
AsUsize(x) ==
    IF x >= 0 THEN U64(x)
    ELSE LET m == U64(-x - 1) IN [k \in 1..4 |-> Limb - 1 - m[k]]

\* a + b on usize: [val, overflow]
AddU64(a, b) ==
    LET s1 == a[1] + b[1]
        s2 == a[2] + b[2] + s1 \div Limb
        s3 == a[3] + b[3] + s2 \div Limb
        s4 == a[4] + b[4] + s3 \div Limb
    IN  [val |-> <<s1 % Limb, s2 % Limb, s3 % Limb, s4 % Limb>>,
         overflow |-> s4 \div Limb > 0]

\* a * c on usize for a small c: [val, overflow]
MulU64(a, c) ==
    LET m1 == a[1] * c
        m2 == a[2] * c + m1 \div Limb
        m3 == a[3] * c + m2 \div Limb
        m4 == a[4] * c + m3 \div Limb
    IN  [val |-> <<m1 % Limb, m2 % Limb, m3 % Limb, m4 % Limb>>,
         overflow |-> m4 \div Limb > 0]

\* a < b on usize
LtU64(a, b) ==
    \E k \in 1..4 : a[k] < b[k] /\ \A j \in (k + 1)..4 : a[j] = b[j]

\* The tail of Allocator::allocate after the buddy returned ret: the cast,
\* `end`, and the test `page_offset >= 0 && end < self.end`.  An overflowing
\* + or * panics in a build with overflow checks and wraps otherwise.
WrapFrame(ret, num_pages, self_end, checks) ==
    LET page_offset == AsUsize(ret)
        sum == AddU64(page_offset, U64(num_pages))
        prod == MulU64(sum.val, PAGE_SIZE)
    IN  IF checks /\ (sum.overflow \/ prod.overflow)
        THEN [opt |-> "panic", frame |-> NoFrame]
        ELSE IF LtU64(prod.val, U64(self_end))
             THEN [opt |-> "Some", frame |-> page_offset]
             ELSE [opt |-> "None", frame |-> NoFrame]

\* The (num_frames, frame_number) pairs mark_used is called with
MarkCalls == {<<1, 0>>, <<3, 0>>, <<1, 2>>, <<3, 2>>, <<3, 1>>}

\* The boot layouts handed to Allocator::new:
\* kernel_start, kernel_end, multiboot_start, multiboot_end
BootLayouts ==
    { <<0, 100, PAGE_SIZE + 8, PAGE_SIZE + 72>>,
      <<0, 2 * PAGE_SIZE, 5 * PAGE_SIZE, 6 * PAGE_SIZE + 16>>,
      <<0, 5 * PAGE_SIZE + 1, 6 * PAGE_SIZE, 6 * PAGE_SIZE + 16>> }

FramesOf(num_frames, frame_number) ==
    frame_number .. (frame_number + num_frames - 1)

\* A call of Buddy::mark_used(num_frames, frame_number) at boot, before any
\* allocate; Allocator::new makes two.
MarkUsed(num_frames, frame_number) ==
    /\ ~halted
    /\ ~alloc.made
    /\ booted < 2
    /\ last.op \in {"none", "mark_used"}
    /\ \E r \in {mark_used(tree, num_frames, frame_number)} :
        /\ tree' = r.tree
        /\ halted' = r.panic
        /\ pre_tree' = r.tree
    /\ marked' = marked \cup FramesOf(num_frames, frame_number)
    /\ booted' = booted + 1
    /\ last' = [NoCall EXCEPT !.op = "mark_used", !.n = num_frames,
                  !.o = frame_number]
    /\ UNCHANGED <<live, lost, alloc, build>>
    /\ UNCHANGED <<walk, paging_vars, byte_vars, vga_vars>>

\* Allocator::new(kernel_start, kernel_end, multiboot_start, multiboot_end)
AllocatorNew(kernel_start, kernel_end, multiboot_start, multiboot_end) ==
    LET kernel_size == kernel_end - kernel_start
        kernel_pages == (kernel_size \div PAGE_SIZE) + 1
        multiboot_size == multiboot_end - multiboot_start
        multiboot_pages == (multiboot_size \div PAGE_SIZE) + 1
        multiboot_offset == (multiboot_start - kernel_start) \div PAGE_SIZE
    IN  /\ ~halted
        /\ ~alloc.made
        /\ booted = 0
        /\ \E r1 \in {mark_used(NewTree, kernel_pages, 0)} :
           \E r2 \in {mark_used(r1.tree, multiboot_pages, multiboot_offset)} :
            /\ tree' = r2.tree
            /\ halted' = (r1.panic \/ r2.panic)
            /\ pre_tree' = r2.tree
        /\ marked' = FramesOf(kernel_pages, 0)
                         \cup FramesOf(multiboot_pages, multiboot_offset)
        /\ booted' = 2
        /\ alloc' = [made |-> TRUE, start |-> kernel_start, end |-> kernel_end]
        /\ last' = [NoCall EXCEPT !.op = "mark_used", !.n = multiboot_pages,
                      !.o = multiboot_offset]
        /\ UNCHANGED <<live, lost, build>>
    /\ UNCHANGED <<walk, paging_vars, byte_vars, vga_vars>>

\* A call of Allocator::allocate(num_pages)
AllocatorAllocate(num_pages) ==
    /\ ~halted
    /\ alloc.made
    /\ \E r \in {allocate(tree, num_pages)} :
       \E w \in {IF r.panic THEN [opt |-> "buddy_panic", frame |-> NoFrame]
                  ELSE WrapFrame(r.ret, num_pages, alloc.end, build = "debug")} :
        /\ r.panic \/ r.ret < 0 \/ Room
        /\ tree' = r.tree
        /\ halted' = (w.opt \in {"panic", "buddy_panic"})
        /\ pre_tree' = tree
        /\ last' = [NoCall EXCEPT !.op = "Allocator.allocate", !.n = num_pages,
                      !.ret = r.ret, !.budget = LiveSum(live),
                      !.opt = w.opt, !.frame = w.frame]
        /\ live' = IF w.opt = "Some" /\ r.ret >= 0
                   THEN live \cup {[o |-> r.ret, n |-> num_pages]}
                   ELSE live
        /\ lost' = IF w.opt = "None" /\ r.ret >= 0
                   THEN lost \cup {[o |-> r.ret, n |-> num_pages]}
                   ELSE lost
    /\ UNCHANGED <<marked, booted, alloc, build>>
    /\ UNCHANGED <<walk, paging_vars, byte_vars, vga_vars>>

\* Allocator::deallocate is unimplemented!(): a panic
AllocatorDeallocate(a) ==
    /\ ~halted
    /\ alloc.made
    /\ a \in live
    /\ halted' = TRUE
    /\ last' = [NoCall EXCEPT !.op = "Allocator.deallocate", !.n = a.n,
                  !.o = a.o]
    /\ UNCHANGED <<tree, live, lost, pre_tree, marked, booted, alloc, build>>
    /\ UNCHANGED <<walk, paging_vars, byte_vars, vga_vars>>

(***************************************************************************)
(* memory/paging.  A virtual address is kept as its digits                 *)
(*   [ext, p4, p3, p2, p1, off]:                                           *)
(* bits 48-63, the four 9-bit table indices (bits 39-47, 30-38, 21-29,     *)
(* 12-20) and the 12-bit offset.  A page number (address / 4096) is the    *)
(* same digits without off.  Physical addresses and entries are naturals.  *)
(***************************************************************************)
ENTRY_COUNT == 512

\* The table indices the model follows; every other entry of a table is
\* left out of the state.
Idx == {0, 1, 42, ENTRY_COUNT - 1}

\* EntryFlags
PRESENT == 1

WRITABLE == 2

HUGE_PAGE == 128

RECURSIVE BitOr(_, _)
BitOr(a, b) ==
    IF a = 0 THEN b
    ELSE IF b = 0 THEN a
    ELSE (IF a % 2 = 1 \/ b % 2 = 1 THEN 1 ELSE 0) + 2 * BitOr(a \div 2, b \div 2)

\* flags.contains(flag) for a single-bit flag
Contains(raw, flag) == (raw \div flag) % 2 = 1

\* Frame::start_address
FrameStart(number) == number * PAGE_SIZE

is_unused_never_in_use(raw) == TRUE

\* Entry::is_unused
is_unused(raw) == raw = 0

\* raw & FLAG_MASK, FLAG_MASK = 0x000FFFFF_FFFFF000, for raw below 2^52
MaskAddress(raw) == (raw \div PAGE_SIZE) * PAGE_SIZE

\* Entry::frame_pointer: Option<Frame> as <<>> or <<number>>; the code
\* stores the masked ADDRESS in Frame.number
frame_pointer(raw) ==
    IF Contains(raw, PRESENT) THEN <<MaskAddress(raw)>> ELSE <<>>

\* Entry::set: the word written
EntrySet(frame, flags) == BitOr(FrameStart(frame), flags)

\* The frame the hardware reads out of an entry: bits 12-51 as an address
HwFrame(raw) == raw \div PAGE_SIZE

\* pub const P4 = 0o177777_777_777_777_777_0000
P4 == [ext |-> 65535, p4 |-> 511, p3 |-> 511, p2 |-> 511, p1 |-> 511, off |-> 0]

\* Page::from_address asserts the address canonical
Canonical(a) ==
    \/ a.ext = 0 /\ a.p4 < 256
    \/ a.ext = 65535 /\ a.p4 >= 256

\* Page::from_address: address / PAGE_SIZE
from_address(a) == [ext |-> a.ext, p4 |-> a.p4, p3 |-> a.p3, p2 |-> a.p2, p1 |-> a.p1]

\* Page::start_address: number * PAGE_SIZE
start_address(page) ==
    [ext |-> page.ext, p4 |-> page.p4, p3 |-> page.p3, p2 |-> page.p2,
     p1 |-> page.p1, off |-> 0]

\* (number >> 27) & 0o777 and the three below it
p4_index(page) == page.p4

p3_index(page) == page.p3

p2_index(page) == page.p2

p1_index(page) == page.p1

\* (table_address << 9) | index << 12 on a 64-bit word
ShiftOr(a, index) ==
    [ext |-> (a.ext * 512 + a.p4) % 65536,
     p4 |-> a.p3, p3 |-> a.p2, p2 |-> a.p1,
     p1 |-> BitOr(a.off \div 8, index),
     off |-> (a.off % 8) * 512]

\* The hardware walk of a virtual address from CR3: the frame it lands in,
\* or -1 for a page fault.
RECURSIVE Walk(_, _, _)
Walk(m, frame, digits) ==
    IF digits = <<>> THEN frame
    ELSE LET raw == m[frame][Head(digits)]
         IN  IF Contains(raw, PRESENT) /\ HwFrame(raw) \in DOMAIN m
             THEN Walk(m, HwFrame(raw), Tail(digits))
             ELSE -1

Resolve(m, root, a) == Walk(m, root, <<a.p4, a.p3, a.p2, a.p1>>)

\* self[index] for the table at virtual address a
ReadEntry(m, root, a, index) == m[Resolve(m, root, a)][index]

\* self[index] = raw
WriteEntry(m, root, a, index, raw) ==
    [m EXCEPT ![Resolve(m, root, a)][index] = raw]

zero_skipped(m, root, a) == m

\* Table::zero
zero(m, root, a) ==
    [m EXCEPT ![Resolve(m, root, a)] = [i \in Idx |-> 0]]

\* Table::next_table_address: Option<usize> as <<>> or <<address>>
next_table_address(m, root, a, index) ==
    LET entry_flags == ReadEntry(m, root, a, index)
    IN  IF Contains(entry_flags, PRESENT) /\ ~Contains(entry_flags, HUGE_PAGE)
        THEN <<ShiftOr(a, index)>>
        ELSE <<>>

\* A FrameAllocator handing out one-page frames: slots holding a frame
\* number or NoSlot; allocate takes the first frame there is
\* (TinyAllocator::allocate; the trait for the allocator behind it).
NoSlot == -1

Available(al) == {i \in 1..Len(al) : al[i] # NoSlot}

FirstSlot(al) == CHOOSE i \in Available(al) : \A j \in Available(al) : i <= j

\* A walk in progress: the table reached (its virtual address va), memory,
\* the allocator, how many frames were drawn from it, and whether an
\* assertion or expect has failed.
StartWalk(m, al) == [st |-> "ok", mem |-> m, al |-> al, va |-> P4, drawn |-> 0]

\* next_table_or_create after the absent-table test, the table being absent
CreateTable(w, root, index, frame) ==
    [w EXCEPT !.mem = zero(WriteEntry(w.mem, root, w.va, index,
                                      EntrySet(frame, BitOr(PRESENT, WRITABLE))),
                           root, ShiftOr(w.va, index)),
              !.al = [w.al EXCEPT ![FirstSlot(w.al)] = NoSlot],
              !.va = ShiftOr(w.va, index),
              !.drawn = w.drawn + 1]

\* next_table_or_create without the test for a table already there
next_table_or_create_always(w, root, index) ==
    IF w.st # "ok" THEN w
    ELSE IF Available(w.al) = {}
         THEN [w EXCEPT !.st = "panic"]
    ELSE CreateTable(w, root, index, w.al[FirstSlot(w.al)])

\* Table::next_table_or_create on the table the walk has reached
next_table_or_create(w, root, index) ==
    IF w.st # "ok" THEN w
    ELSE IF next_table_address(w.mem, root, w.va, index) # <<>>
         THEN [w EXCEPT !.va = ShiftOr(w.va, index)]
    ELSE IF Contains(ReadEntry(w.mem, root, w.va, index), HUGE_PAGE)
         THEN [w EXCEPT !.st = "panic"]
    ELSE IF Available(w.al) = {}
         THEN [w EXCEPT !.st = "panic"]
    ELSE CreateTable(w, root, index, w.al[FirstSlot(w.al)])

\* The terminal index Mapper::unmap zeroes: the code writes
\* p1[page.p2_index()]
UnmapIndex(page) == p2_index(page)

\* Mapper::map_to once the walk stands on the P1 table
MapTerminal(w, root, page, frame, flags) ==
    IF w.st # "ok" THEN w
    ELSE IF ~is_unused(ReadEntry(w.mem, root, w.va, p1_index(page)))
         THEN [w EXCEPT !.st = "panic"]
    ELSE [w EXCEPT !.mem = WriteEntry(w.mem, root, w.va, p1_index(page),
                                      EntrySet(frame, BitOr(flags, PRESENT)))]

\* Mapper::map_to: [st, mem, al, va, drawn]
map_to(m, root, al, page, frame, flags) ==
    MapTerminal(
        next_table_or_create(
            next_table_or_create(
                next_table_or_create(StartWalk(m, al), root, p4_index(page)),
                root, p3_index(page)),
            root, p2_index(page)),
        root, page, frame, flags)

\* Option::and_then over next_table
AndThenNextTable(t, m, root, index) ==
    IF t = <<>> THEN <<>> ELSE next_table_address(m, root, t[1], index)

\* The P1 table of a page reached by next_table / next_table_mut:
\* <<>> or <<address>>
P1Of(m, root, page) ==
    AndThenNextTable(
        AndThenNextTable(next_table_address(m, root, P4, p4_index(page)),
                         m, root, p3_index(page)),
        m, root, p2_index(page))

\* and_then(|p1| p1[page.p1_index()].frame_pointer())
TerminalFrame(p1, m, root, page) ==
    IF p1 = <<>> THEN <<>>
    ELSE frame_pointer(ReadEntry(m, root, p1[1], p1_index(page)))

\* Mapper::translate_page: Option<Frame> as <<>> or <<frame.number>>
translate_page(m, root, page) == TerminalFrame(P1Of(m, root, page), m, root, page)

\* .map(|frame| frame.number * PAGE_SIZE + offset)
MapFrame(frame, offset) ==
    IF frame = <<>> THEN <<>> ELSE <<frame[1] * PAGE_SIZE + offset>>

\* Mapper::translate: Option<PhysicalAddress>
translate(m, root, address) ==
    MapFrame(translate_page(m, root, from_address(address)), address.off)

\* The page whose terminal entry is entry index of the P1 table of page
PageAt(page, index) == [page EXCEPT !.p1 = index]

\* Mapper::unmap on the P1 table found: the entry write (with the page
\* whose mapping it removes, if it removes one), then the TLB flush
UnmapIn(p1, m, root, page) ==
    IF p1 = <<>> THEN [st |-> "panic", mem |-> m, events |-> <<>>]
    ELSE [st |-> "ok",
          mem |-> WriteEntry(m, root, p1[1], UnmapIndex(page), 0),
          events |-> << [ev |-> "zero",
                         page |-> PageAt(page, UnmapIndex(page)),
                         removes |-> Contains(ReadEntry(m, root, p1[1],
                                                        UnmapIndex(page)),
                                              PRESENT)],
                        [ev |-> "flush", page |-> page, removes |-> FALSE] >>]

\* Mapper::unmap: [st, mem, events]
unmap(m, root, page) == UnmapIn(P1Of(m, root, page), m, root, page)

(***************************************************************************)
(* The paging state.  Physical memory holds, per frame, the entries of the *)
(* table stored there.  Frame 1 is the active P4 named by CR3, frames      *)
(* 2..4 are the three frames TinyAllocator::new drew, the next MaxPool     *)
(* frames are what the FrameAllocator behind the Mapper can still hand     *)
(* out, and the last two are frames callers pass to map_to and             *)
(* InactivePageTable::new.  Frame 0 is a frame with start address 0.       *)
(*   mem       physical memory: per frame, the entries of the table there  *)
(*   cr3       the frame of the active P4                                  *)
(*   pool      the FrameAllocator handed to the Mapper                     *)
(*   stash     TemporaryPage.allocator, the TinyAllocator                  *)
(*   scratch   TemporaryPage.page                                          *)
(*   inactive  InactivePageTable.p4_frame, NoSlot before it is built       *)
(*   ppc       "idle" between operations, "in_with" while the closure of   *)
(*             with runs, "halted" after a panic                           *)
(*   steps     Mapper calls the running closure has made                   *)
(*   plast     the last paging call and its outcome                        *)
(*   trace     entry writes, TLB flushes, call and return of f made by     *)
(*             the last operation, in program order                        *)
(***************************************************************************)
PhysFrames == 0..(MaxPool + 6)

InitPool == [i \in 1..MaxPool |-> 4 + i]

InitStash == <<2, 3, 4>>

\* the frame handed to InactivePageTable::new
TableFrames == {MaxPool + 6}

\* what a frame nobody has written yet holds: every entry looks PRESENT
Garbage == [i \in Idx |-> 7]

UserPage(a, b, c, d) == [ext |-> 0, p4 |-> a, p3 |-> b, p2 |-> c, p1 |-> d]

\* test_paging's page (42th P3 entry), 0x40000000 / 4096, and pages whose
\* p1 and p2 indices differ
Pages == {UserPage(0, 42, 0, 0), UserPage(0, 1, 0, 0),
          UserPage(0, 1, 0, 1), UserPage(0, 1, 1, 0)}

\* the page a TemporaryPage is constructed with
ScratchPages == {UserPage(1, 1, 1, 1), UserPage(1, 1, 0, 1)}

Offsets == {0, 291, PAGE_SIZE - 1}

\* the (frame, flags) pairs callers pass to map_to
MapCalls == {<<0, 0>>, <<MaxPool + 5, WRITABLE>>}

NoPage == UserPage(0, 0, 0, 0)

NoPCall == [op |-> "none", st |-> "ok", page |-> NoPage, frame |-> 0,
            flags |-> 0, drawn |-> 0, res |-> <<>>, mapped |-> FALSE]

InitPaging ==
    /\ cr3 = 1
    /\ mem = [f \in PhysFrames |->
                IF f = 1
                THEN [i \in Idx |-> IF i = ENTRY_COUNT - 1
                                    THEN EntrySet(1, BitOr(PRESENT, WRITABLE))
                                    ELSE 0]
                ELSE Garbage]
    /\ pool = InitPool
    /\ stash = InitStash
    /\ scratch \in ScratchPages
    /\ inactive = NoSlot
    /\ ppc = "idle"
    /\ steps = 0
    /\ plast = NoPCall
    /\ trace = <<>>

\* the paging state of the specifications that never touch it
PagingIdle ==
    /\ cr3 = 1
    /\ mem = [f \in {1} |-> [i \in Idx |-> 0]]
    /\ pool = <<>>
    /\ stash = <<>>
    /\ scratch = NoPage
    /\ inactive = NoSlot
    /\ ppc = "idle"
    /\ steps = 0
    /\ plast = NoPCall
    /\ trace = <<>>

\* A Mapper method can be called between operations, and by the closure of
\* a with while it runs
CanCall == ppc = "idle" \/ (ppc = "in_with" /\ steps < MaxClosureSteps)

Stepped == IF ppc = "in_with" THEN steps + 1 ELSE steps

After(st) == IF st = "ok" THEN ppc ELSE "halted"

MapTo(page, frame, flags) ==
    /\ CanCall
    /\ \E r \in {map_to(mem, cr3, pool, page, frame, flags)} :
        /\ mem' = r.mem
        /\ pool' = r.al
        /\ ppc' = After(r.st)
        /\ plast' = [NoPCall EXCEPT !.op = "map_to", !.st = r.st, !.page = page,
                       !.frame = frame, !.flags = flags, !.drawn = r.drawn]
    /\ steps' = Stepped
    /\ trace' = <<>>
    /\ UNCHANGED <<cr3, stash, scratch, inactive>>
    /\ UNCHANGED <<buddy_vars, byte_vars, vga_vars>>

Unmap(page) ==
    /\ CanCall
    /\ \E r \in {unmap(mem, cr3, page)} :
        /\ mem' = r.mem
        /\ ppc' = After(r.st)
        /\ plast' = [NoPCall EXCEPT !.op = "unmap", !.st = r.st, !.page = page,
                       !.mapped = (translate_page(mem, cr3, page) # <<>>)]
        /\ trace' = r.events
    /\ steps' = Stepped
    /\ UNCHANGED <<cr3, pool, stash, scratch, inactive>>
    /\ UNCHANGED <<buddy_vars, byte_vars, vga_vars>>

\* Mapper::translate; Page::from_address panics on a non-canonical address
Translate(address) ==
    /\ CanCall
    /\ plast' = [NoPCall EXCEPT !.op = "translate", !.page = from_address(address),
                   !.st = IF Canonical(address) THEN "ok" ELSE "panic",
                   !.res = IF Canonical(address) THEN translate(mem, cr3, address)
                           ELSE <<>>]
    /\ ppc' = IF Canonical(address) THEN ppc ELSE "halted"
    /\ steps' = Stepped
    /\ trace' = <<>>
    /\ UNCHANGED <<mem, cr3, pool, stash, scratch, inactive>>
    /\ UNCHANGED <<buddy_vars, byte_vars, vga_vars>>

\* TemporaryPage::map: [st, mem, al, drawn]
TemporaryPage_map(m, root, al, page, frame) ==
    IF translate_page(m, root, page) # <<>>
    THEN [StartWalk(m, al) EXCEPT !.st = "panic"]
    ELSE map_to(m, root, al, page, frame, WRITABLE)

TemporaryPageMap(frame) ==
    /\ ppc = "idle"
    /\ \E r \in {TemporaryPage_map(mem, cr3, stash, scratch, frame)} :
        /\ mem' = r.mem
        /\ stash' = r.al
        /\ ppc' = After(r.st)
        /\ plast' = [NoPCall EXCEPT !.op = "TemporaryPage.map", !.st = r.st,
                       !.page = scratch, !.frame = frame, !.drawn = r.drawn]
    /\ trace' = <<>>
    /\ UNCHANGED <<cr3, pool, scratch, inactive, steps>>
    /\ UNCHANGED <<buddy_vars, byte_vars, vga_vars>>

TemporaryPageUnmap ==
    /\ ppc = "idle"
    /\ \E r \in {unmap(mem, cr3, scratch)} :
        /\ mem' = r.mem
        /\ ppc' = After(r.st)
        /\ plast' = [NoPCall EXCEPT !.op = "TemporaryPage.unmap", !.st = r.st,
                       !.page = scratch,
                       !.mapped = (translate_page(mem, cr3, scratch) # <<>>)]
        /\ trace' = r.events
    /\ UNCHANGED <<cr3, pool, stash, scratch, inactive, steps>>
    /\ UNCHANGED <<buddy_vars, byte_vars, vga_vars>>

\* InactivePageTable::new after the unmap of the temporary page
NewDone(u, al) == [st |-> u.st, mem |-> u.mem, al |-> al, events |-> u.events]

\* InactivePageTable::new without the write of entry 511
NewMapped_no_recursive(r, root, page, frame) ==
    IF r.st # "ok" THEN [st |-> "panic", mem |-> r.mem, al |-> r.al, events |-> <<>>]
    ELSE NewDone(unmap(zero(r.mem, root, start_address(page)), root, page), r.al)

\* InactivePageTable::new once the frame is mapped at the temporary page:
\* table.zero(), table[511].set(frame, PRESENT | WRITABLE), unmap
NewMapped(r, root, page, frame) ==
    IF r.st # "ok" THEN [st |-> "panic", mem |-> r.mem, al |-> r.al, events |-> <<>>]
    ELSE NewDone(unmap(WriteEntry(zero(r.mem, root, start_address(page)),
                                  root, start_address(page), ENTRY_COUNT - 1,
                                  EntrySet(frame, BitOr(PRESENT, WRITABLE))),
                       root, page),
                 r.al)

\* InactivePageTable::new: [st, mem, al, events]
InactivePageTable_new(m, root, al, page, frame) ==
    NewMapped(TemporaryPage_map(m, root, al, page, frame), root, page, frame)

InactiveNew(frame) ==
    /\ ppc = "idle"
    /\ inactive = NoSlot
    /\ \E r \in {InactivePageTable_new(mem, cr3, stash, scratch, frame)} :
        /\ mem' = r.mem
        /\ stash' = r.al
        /\ ppc' = After(r.st)
        /\ inactive' = IF r.st = "ok" THEN frame ELSE inactive
        /\ plast' = [NoPCall EXCEPT !.op = "InactivePageTable.new", !.st = r.st,
                       !.page = scratch, !.frame = frame]
        /\ trace' = r.events
    /\ UNCHANGED <<cr3, pool, scratch, steps>>
    /\ UNCHANGED <<buddy_vars, byte_vars, vga_vars>>

\* ActivePageTable::with without the rewrite of entry 511
WithMapped_no_rewrite(r, root, p4_frame) ==
    IF r.st # "ok" THEN [st |-> "panic", mem |-> r.mem, al |-> r.al, events |-> <<>>]
    ELSE [st |-> "ok", mem |-> r.mem, al |-> r.al,
          events |-> << [ev |-> "write511", page |-> NoPage, removes |-> FALSE],
                        [ev |-> "flush_all", page |-> NoPage, removes |-> FALSE],
                        [ev |-> "call_f", page |-> NoPage, removes |-> FALSE] >>]

\* ActivePageTable::with once the backup is mapped at the temporary page:
\* the rewrite of entry 511, flush_all, and the call of f
WithMapped(r, root, p4_frame) ==
    IF r.st # "ok" THEN [st |-> "panic", mem |-> r.mem, al |-> r.al, events |-> <<>>]
    ELSE [st |-> "ok",
          mem |-> WriteEntry(r.mem, root, P4, ENTRY_COUNT - 1,
                             EntrySet(p4_frame, BitOr(PRESENT, WRITABLE))),
          al |-> r.al,
          events |-> << [ev |-> "write511", page |-> NoPage, removes |-> FALSE],
                        [ev |-> "flush_all", page |-> NoPage, removes |-> FALSE],
                        [ev |-> "call_f", page |-> NoPage, removes |-> FALSE] >>]

\* ActivePageTable::with up to the call of f: [st, mem, al, events];
\* active_table_backup is the frame CR3 names
with(m, root, al, page, p4_frame) ==
    WithMapped(TemporaryPage_map(m, root, al, page, root), root, p4_frame)

WithBegin ==
    /\ ppc = "idle"
    /\ inactive # NoSlot
    /\ \E r \in {with(mem, cr3, stash, scratch, inactive)} :
        /\ mem' = r.mem
        /\ stash' = r.al
        /\ ppc' = IF r.st = "ok" THEN "in_with" ELSE "halted"
        /\ plast' = [NoPCall EXCEPT !.op = "with.f", !.st = r.st, !.page = scratch,
                       !.frame = inactive]
        /\ trace' = r.events
    /\ steps' = 0
    /\ UNCHANGED <<cr3, pool, scratch, inactive>>
    /\ UNCHANGED <<buddy_vars, byte_vars, vga_vars>>

\* f returns, and with returns right after it
WithReturn ==
    /\ ppc = "in_with"
    /\ ppc' = "idle"
    /\ plast' = [NoPCall EXCEPT !.op = "with", !.page = scratch, !.frame = inactive]
    /\ trace' = << [ev |-> "return", page |-> NoPage, removes |-> FALSE] >>
    /\ steps' = 0
    /\ UNCHANGED <<mem, cr3, pool, stash, scratch, inactive>>
    /\ UNCHANGED <<buddy_vars, byte_vars, vga_vars>>

(***************************************************************************)
(* buddy_alloc.rs: the byte-scale BuddyAllocator.  allocate is followed    *)
(* one loop iteration at a time.  index is a usize; the one value it takes *)
(* outside the tree by wrapping, 2^64 - 1, lasts no longer than the        *)
(* iteration that produced it.                                             *)
(***************************************************************************)
\* const LEVELS: usize = 8, scaled down
BA_LEVELS == 2

\* const SIZE: usize = (1 << LEVELS + 1) - 1;
BA_SIZE == Pow2(BA_LEVELS + 1) - 1

\* BuddyAllocator::new, no call in progress; checks: the build panics on
\* arithmetic overflow
BuddyAllocator_new(checks) ==
    [tree |-> [i \in 0..(BA_SIZE - 1) |-> "Unused"], live |-> {},
     pc |-> "idle", s |-> 0, index |-> 0, current_level |-> 0,
     requested_level |-> 0, ret |-> 0, checks |-> checks]

\* requested_blocks and requested_level of allocate(s)
BA_requested_level(s) ==
    LET requested_blocks == IF s = 0 THEN 1 ELSE next_power_of_two(s)
    IN  Log2Loop(requested_blocks \div 2, 0)

\* BuddyAllocator::update_parents, index inside the tree
RECURSIVE BA_update_parents(_, _)
BA_update_parents(t, index) ==
    LET left_child == index * 2 + 1
        right_child == index * 2 + 2
        left_child_used_or_full == t[left_child] \in {"Full", "Used"}
        right_child_used_or_full == t[right_child] \in {"Full", "Used"}
        state == IF left_child_used_or_full /\ right_child_used_or_full THEN "Full"
                 ELSE IF t[left_child] = "Unused" /\ t[right_child] = "Unused"
                      THEN "Unused"
                 ELSE "Split"
        t1 == [t EXCEPT ![index] = state]
    IN  IF index = 0 THEN t1 ELSE BA_update_parents(t1, (index + 1) \div 2 - 1)

\* self.update_parents((index + 1) / 2 - 1): [panic, tree].  For index = 0
\* the subtraction overflows: a panic with overflow checks, and otherwise
\* update_parents(2^64 - 1), whose left_child wraps to 2^64 - 1 and fails
\* the bounds check of self.tree[left_child].
BA_update_from(t, index) ==
    IF index = 0 THEN [panic |-> TRUE, tree |-> t]
    ELSE [panic |-> FALSE, tree |-> BA_update_parents(t, (index + 1) \div 2 - 1)]

\* BuddyAllocator::free_and_combine
RECURSIVE BA_free_and_combine(_, _)
BA_free_and_combine(t, index) ==
    LET t1 == [t EXCEPT ![index] = "Unused"]
        other_node == IF index % 2 = 1 THEN index + 1 ELSE index - 1
    IN  IF index = 0 THEN t1
        ELSE IF t1[other_node] = "Unused"
             THEN BA_free_and_combine(t1, (index + 1) \div 2 - 1)
        ELSE t1

\* BuddyAllocator::free(index_offset): [panic, tree]
BA_free(t, index_offset) ==
    IF index_offset > BA_SIZE - 1 THEN [panic |-> TRUE, tree |-> t]
    ELSE BA_update_from(BA_free_and_combine(t, index_offset), index_offset)

BA_Sizes == {0} \cup {Pow2(k) : k \in 0..(BA_LEVELS + 1)}

\* allocate(s) up to the 'forward loop
BA_Start(s) ==
    /\ ba.pc = "idle"
    /\ ba' = IF BA_requested_level(s) > BA_LEVELS
             THEN [ba EXCEPT !.pc = "done", !.s = s, !.ret = -1,
                             !.requested_level = BA_requested_level(s)]
             ELSE [ba EXCEPT !.pc = "forward", !.s = s, !.index = 0,
                             !.current_level = BA_LEVELS,
                             !.requested_level = BA_requested_level(s)]
    /\ UNCHANGED <<buddy_vars, paging_vars, vga_vars>>

\* index = index * 2 + 1; current_level -= 1 (current_level is above
\* requested_level here, so above 0)
BA_Descend(b) ==
    [b EXCEPT !.index = b.index * 2 + 1, !.current_level = b.current_level - 1]

\* `if has_buddy { index += 1; }` followed by `continue 'forward` in the
\* Used | Full arm: without a buddy the next iteration starts where this
\* one did
BA_SkipUsed(b) ==
    IF b.index % 2 = 1 THEN [b EXCEPT !.index = b.index + 1] ELSE b

\* the level match on a node that is not Unused: on to the buddy, or into
\* the 'backward loop
BA_CheckBuddy(b) ==
    IF b.index % 2 = 1 THEN [b EXCEPT !.index = b.index + 1]
    ELSE [b EXCEPT !.pc = "backward"]

\* the level match on an Unused node
BA_Match(b) ==
    LET r == BA_update_from([b.tree EXCEPT ![b.index] = "Used"], b.index)
    IN  IF r.panic
        THEN [b EXCEPT !.pc = "panic", !.tree = [b.tree EXCEPT ![b.index] = "Used"]]
        ELSE [b EXCEPT !.pc = "done", !.tree = r.tree, !.ret = b.index]

\* one iteration of the 'forward loop; self.tree[index] is bounds-checked
BA_ForwardStep ==
    /\ ba.pc = "forward"
    /\ ba' = IF ba.index \notin DOMAIN ba.tree THEN [ba EXCEPT !.pc = "panic"]
             ELSE IF ba.current_level # ba.requested_level
                  THEN CASE ba.tree[ba.index] \in {"Used", "Full"} -> BA_SkipUsed(ba)
                         [] ba.tree[ba.index] = "Unused" ->
                              BA_Descend([ba EXCEPT !.tree[ba.index] = "Split"])
                         [] ba.tree[ba.index] = "Split" -> BA_Descend(ba)
             ELSE IF ba.tree[ba.index] = "Unused" THEN BA_Match(ba)
             ELSE BA_CheckBuddy(ba)
    /\ UNCHANGED <<buddy_vars, paging_vars, vga_vars>>

\* one iteration of the 'backward loop.  There is no test for the root: at
\* index 0 the subtraction overflows; with overflow checks that is a panic,
\* and otherwise index becomes 2^64 - 1, which is odd, and index += 1 wraps
\* it to 0 with current_level one higher.
BA_BackwardStep ==
    /\ ba.pc = "backward"
    /\ ba' = IF ba.index = 0
             THEN IF ba.checks THEN [ba EXCEPT !.pc = "panic"]
                  ELSE [ba EXCEPT !.pc = "forward", !.index = 0,
                                  !.current_level = ba.current_level + 1]
             ELSE IF ((ba.index + 1) \div 2 - 1) % 2 = 1
                  THEN [ba EXCEPT !.pc = "forward",
                                  !.index = (ba.index + 1) \div 2,
                                  !.current_level = ba.current_level + 1]
             ELSE [ba EXCEPT !.index = (ba.index + 1) \div 2 - 1,
                             !.current_level = ba.current_level + 1]
    /\ UNCHANGED <<buddy_vars, paging_vars, vga_vars>>

\* return index as isize
BA_Return ==
    /\ ba.pc = "done"
    /\ ba' = [ba EXCEPT !.pc = "idle",
                        !.live = IF ba.ret >= 0 THEN ba.live \cup {ba.ret}
                                 ELSE ba.live]
    /\ UNCHANGED <<buddy_vars, paging_vars, vga_vars>>

\* free(index_offset) of a block allocate returned
BA_Free(index_offset) ==
    /\ ba.pc = "idle"
    /\ index_offset \in ba.live
    /\ \E r \in {BA_free(ba.tree, index_offset)} :
          ba' = [ba EXCEPT !.tree = r.tree,
                           !.pc = IF r.panic THEN "panic" ELSE "idle",
                           !.live = ba.live \ {index_offset}]
    /\ UNCHANGED <<buddy_vars, paging_vars, vga_vars>>

ByteIdle == ba = BuddyAllocator_new(FALSE)

(***************************************************************************)
(* vga_buffer.rs: the Writer.  A cell is a ScreenChar.                     *)
(***************************************************************************)
\* const BUFFER_HEIGHT: usize = 25 and const BUFFER_WIDTH: usize = 80,
\* scaled down
BUFFER_HEIGHT == 3

BUFFER_WIDTH == 2

\* how many write_byte calls a behaviour makes
MaxWrites == 7

\* b'\n', b' ' and two printable bytes
LineFeed == 10

Space == 32

Bytes == {LineFeed, 97, 98}

\* ColorCode::new(Color::LightGreen, Color::Black)
ColorCode_new(foreground, background) == background * 16 + foreground

\* what the text buffer holds before the kernel writes to it
Unwritten == [ascii_character |-> 0, color_code |-> 0]

\* pub static WRITER
WRITER ==
    [col |-> 0, row |-> 0, color_code |-> ColorCode_new(10, 0),
     chars |-> [r \in 0..(BUFFER_HEIGHT - 1) |->
                  [c \in 0..(BUFFER_WIDTH - 1) |-> Unwritten]]]

clear_row_skipped(w, row) == w

\* Writer::clear_row
clear_row(w, row) ==
    LET blank == [ascii_character |-> Space, color_code |-> w.color_code]
    IN  [w EXCEPT !.chars[row] = [c \in 0..(BUFFER_WIDTH - 1) |-> blank]]

\* the loops of new_line from row on: each cell of row is read and written
\* to row - 1
RECURSIVE ShiftRows(_, _)
ShiftRows(chars, row) ==
    IF row >= BUFFER_HEIGHT THEN chars
    ELSE ShiftRows([chars EXCEPT ![row - 1] = chars[row]], row + 1)

\* Writer::new_line
new_line(w) ==
    IF w.row = BUFFER_HEIGHT - 1
    THEN [clear_row([w EXCEPT !.chars = ShiftRows(w.chars, 1)], BUFFER_HEIGHT - 1)
            EXCEPT !.col = 0]
    ELSE [w EXCEPT !.row = w.row + 1, !.col = 0]

\* the Writer at the cell write of write_byte
BeforeCell(w) == IF w.col >= BUFFER_WIDTH THEN new_line(w) ELSE w

\* self.buffer().chars[row][col].write(..); self.col += 1
WriteCell(w, byte) ==
    [w EXCEPT !.chars[w.row][w.col] =
                  [ascii_character |-> byte, color_code |-> w.color_code],
              !.col = w.col + 1]

\* Writer::write_byte
write_byte(w, byte) ==
    IF byte = LineFeed THEN new_line(w) ELSE WriteCell(BeforeCell(w), byte)

\* the last write_byte call: its byte, the Writer before it, whether
\* new_line ran and the Writer when it returned, the cell written (wrote),
\* whether an index left the buffer, and how many calls were made
NoWrite ==
    [op |-> "none", byte |-> 0, pre |-> WRITER, fed |-> FALSE, feed |-> WRITER,
     wrote |-> FALSE, wrow |-> 0, wcol |-> 0, panic |-> FALSE, n |-> 0]

VgaInit ==
    /\ writer = WRITER
    /\ wlast = NoWrite

\* the index chars[row][col] of the array is bounds-checked
WriteByte(byte) ==
    /\ ~wlast.panic
    /\ wlast.n < MaxWrites
    /\ \E fed \in {byte = LineFeed \/ writer.col >= BUFFER_WIDTH} :
       \E at \in {IF byte = LineFeed THEN writer ELSE BeforeCell(writer)} :
       \E out \in {byte # LineFeed /\ (at.row >= BUFFER_HEIGHT
                                       \/ at.col >= BUFFER_WIDTH)} :
        /\ writer' = IF out THEN at ELSE write_byte(writer, byte)
        /\ wlast' = [op |-> "write_byte", byte |-> byte, pre |-> writer,
                     fed |-> fed,
                     feed |-> IF fed THEN new_line(writer) ELSE WRITER,
                     wrote |-> byte # LineFeed, wrow |-> at.row, wcol |-> at.col,
                     panic |-> out, n |-> wlast.n + 1]
    /\ UNCHANGED <<buddy_vars, paging_vars, byte_vars>>

\* every component outside the specification at hand, as constructed
OtherIdle == ByteIdle /\ VgaInit

Init == InitBuddy /\ PagingIdle /\ OtherIdle

\* Buddy::mark_used at boot, then allocate and the matching free
NextBoot ==
    \/ \E c \in MarkCalls : MarkUsed(c[1], c[2])
    \/ \E n \in Sizes : booted > 0 /\ Allocate(n)
    \/ \E a \in live : booted > 0 /\ Free(a)

SpecBoot == Init /\ [][NextBoot]_vars

InitAllocator ==
    /\ walk = NoWalk
    /\ tree = NewTree
    /\ live = {}
    /\ lost = {}
    /\ last = NoCall
    /\ pre_tree = NewTree
    /\ halted = FALSE
    /\ marked = {}
    /\ booted = 0
    /\ alloc = NoAllocator
    /\ build \in Builds
    /\ PagingIdle
    /\ OtherIdle

\* The Allocator: new, then allocate and deallocate
NextAllocator ==
    \/ \E b \in BootLayouts : AllocatorNew(b[1], b[2], b[3], b[4])
    \/ \E n \in Sizes : AllocatorAllocate(n)
    \/ \E a \in live : AllocatorDeallocate(a)

SpecAllocator == InitAllocator /\ [][NextAllocator]_vars

Next ==
    \/ \E n \in Sizes : Allocate(n)
    \/ \E a \in live : Free(a)

Spec == Init /\ [][Next]_vars

(***************************************************************************)
(* Buddy::allocate one loop iteration at a time.                           *)
(***************************************************************************)

\* blocks live while an allocate is followed step by step
MaxLiveSteps == 2

StepSizes == {Pow2(k) : k \in 0..LEVELS}

NextSibling_stay(index) == index

\* index += 1: on to the buddy
NextSibling(index) == index + 1

\* allocate up to the 'forward loop
StartAllocate(num_frames) ==
    /\ ~halted
    /\ walk.pc = "idle"
    /\ booted > 0
    /\ Cardinality(live) < MaxLiveSteps \/ allocate(tree, num_frames).ret < 0
    /\ walk' = IF get_level_from_num_frames(num_frames) > LEVELS
               THEN [NoWalk EXCEPT !.pc = "done", !.n = num_frames, !.ret = -1]
               ELSE [NoWalk EXCEPT !.pc = "forward", !.n = num_frames,
                                   !.current_level = LEVELS,
                                   !.requested_level =
                                       get_level_from_num_frames(num_frames)]
    /\ pre_tree' = tree
    /\ last' = [NoCall EXCEPT !.op = "allocate.start", !.n = num_frames]
    /\ UNCHANGED <<tree, live, lost, halted, marked, booted, alloc, build>>
    /\ UNCHANGED <<paging_vars, byte_vars, vga_vars>>

\* the end of an iteration of 'forward that did not continue: on to the buddy,
\* or into the 'backward loop
CheckBuddy(w) ==
    IF w.index % 2 = 1
    THEN [w EXCEPT !.index = NextSibling(w.index)]
    ELSE [w EXCEPT !.pc = "backward"]

Descend(w) ==
    [w EXCEPT !.index = w.index * 2 + 1, !.current_level = w.current_level - 1]

\* one iteration of the 'forward loop
ForwardStep ==
    /\ ~halted
    /\ walk.pc = "forward"
    /\ IF walk.current_level # walk.requested_level
       THEN /\ walk' = IF tree[walk.index] \in {"Used", "Full"} THEN CheckBuddy(walk)
                       ELSE Descend(walk)
            /\ tree' = IF tree[walk.index] = "Unused"
                       THEN [tree EXCEPT ![walk.index] = "Split"]
                       ELSE tree
            /\ halted' = halted
       ELSE IF tree[walk.index] = "Unused"
            THEN \E r \in {MatchNode(tree, walk.index, walk.current_level)} :
                    /\ tree' = r.tree
                    /\ halted' = r.panic
                    /\ walk' = IF r.panic THEN walk
                               ELSE [walk EXCEPT !.pc = "done", !.ret = r.ret]
            ELSE /\ walk' = CheckBuddy(walk)
                 /\ UNCHANGED <<tree, halted>>
    /\ UNCHANGED <<live, lost, last, pre_tree, marked, booted, alloc, build>>
    /\ UNCHANGED <<paging_vars, byte_vars, vga_vars>>

\* one iteration of the 'backward loop
BackwardStep ==
    /\ ~halted
    /\ walk.pc = "backward"
    /\ walk' = IF walk.index = 0 THEN [walk EXCEPT !.pc = "done", !.ret = -1]
               ELSE IF ParentOf(walk.index) % 2 = 1
                    THEN [walk EXCEPT !.pc = "forward",
                                      !.index = ParentOf(walk.index) + 1,
                                      !.current_level = walk.current_level + 1]
               ELSE [walk EXCEPT !.index = ParentOf(walk.index),
                                 !.current_level = walk.current_level + 1]
    /\ UNCHANGED <<tree, live, lost, last, pre_tree, halted, marked, booted, alloc,
                   build>>
    /\ UNCHANGED <<paging_vars, byte_vars, vga_vars>>

\* allocate returns
ReturnAllocate ==
    /\ ~halted
    /\ walk.pc = "done"
    /\ walk' = NoWalk
    /\ live' = IF walk.ret >= 0 THEN live \cup {[o |-> walk.ret, n |-> walk.n]}
               ELSE live
    /\ last' = [NoCall EXCEPT !.op = "allocate", !.n = walk.n, !.ret = walk.ret]
    /\ UNCHANGED <<tree, lost, pre_tree, halted, marked, booted, alloc, build>>
    /\ UNCHANGED <<paging_vars, byte_vars, vga_vars>>

\* mark_used at boot, then allocate followed through its loops, and the
\* matching free
NextSteps ==
    \/ \E c \in MarkCalls : MarkUsed(c[1], c[2])
    \/ \E n \in StepSizes : StartAllocate(n)
    \/ ForwardStep
    \/ BackwardStep
    \/ ReturnAllocate
    \/ \E a \in live : walk.pc = "idle" /\ Free(a)

\* the kernel is single-threaded: a call that can take a step takes it
SpecSteps ==
    Init /\ [][NextSteps]_vars /\ WF_vars(ForwardStep \/ BackwardStep)

\* allocate and the matching free, until one free with a frame number out
\* of range is made
NextFree ==
    \/ \E n \in Sizes : last.op # "free_outside" /\ Allocate(n)
    \/ \E a \in live : last.op # "free_outside" /\ Free(a)
    \/ \E n \in Sizes \ {0}, f \in OutFrames :
            last.op # "free_outside" /\ FreeOutside(n, f)

SpecFree == Init /\ [][NextFree]_vars

AddressIn(p, o) ==
    [ext |-> p.ext, p4 |-> p.p4, p3 |-> p.p3, p2 |-> p.p2, p1 |-> p.p1, off |-> o]

\* the addresses callers pass to translate
Addresses ==
    {AddressIn(p, 291) : p \in Pages} \cup {AddressIn(UserPage(ENTRY_COUNT - 1, 0, 0, 0), 0)}

NextPaging ==
    \/ \E page \in Pages, c \in MapCalls : MapTo(page, c[1], c[2])
    \/ \E page \in Pages : Unmap(page)
    \/ \E address \in Addresses : Translate(address)
    \/ \E frame \in TableFrames : TemporaryPageMap(frame)
    \/ TemporaryPageUnmap
    \/ \E frame \in TableFrames : InactiveNew(frame)
    \/ WithBegin
    \/ WithReturn

InitPagingSpec == InitBuddy /\ InitPaging /\ OtherIdle

SpecPaging == InitPagingSpec /\ [][NextPaging]_vars

\* The byte-scale BuddyAllocator in either build: allocate followed through
\* its loops, and free
InitByte ==
    /\ InitBuddy
    /\ PagingIdle
    /\ VgaInit
    /\ ba \in {BuddyAllocator_new(checks) : checks \in BOOLEAN}

NextByte ==
    \/ \E s \in BA_Sizes : BA_Start(s)
    \/ BA_ForwardStep
    \/ BA_BackwardStep
    \/ BA_Return
    \/ \E index_offset \in 0..(BA_SIZE - 1) : BA_Free(index_offset)

\* the kernel is single-threaded: a call that can take a step takes it
SpecByte ==
    InitByte /\ [][NextByte]_vars /\ WF_vars(BA_ForwardStep \/ BA_BackwardStep)

\* The Writer: a sequence of write_byte calls
NextVga == \E byte \in Bytes : WriteByte(byte)

SpecVga == Init /\ [][NextVga]_vars

(***************************************************************************)
(* Claims about the buddy tree from a fresh tree (Spec).                   *)
(***************************************************************************)
\* The frame interval [o, o + next_pow2(n)) of an allocation
Interval(a) == a.o .. (a.o + next_power_of_two(a.n) - 1)

\* C1: any two simultaneously live allocations (o1,n1), (o2,n2) occupy
\* disjoint frame intervals [o, o + next_pow2(n)); in particular allocate
\* never returns a block that is still live.
C1_NonOverlap ==
    ~halted =>
        /\ ~last.dup
        /\ \A a \in live : \A b \in live :
               a # b => Interval(a) \cap Interval(b) = {}

\* Three blocks of different sizes live at once, the last one allocated
\* after a free made room for it.
C1_Witness ==
    /\ ~halted
    /\ last.op = "allocate" /\ last.ret > 0
    /\ Cardinality(live) = 3
    /\ \E a \in live : \E b \in live :
           /\ next_power_of_two(a.n) = 1
           /\ next_power_of_two(b.n) = 4

\* C5: allocate(n) returning o followed at once by free(n, o) leaves every
\* cell of the tree as it was before the allocate.
C5_RoundTrip ==
    (~halted /\ last.op = "free" /\ last.undo) => tree = pre_tree

\* An allocate of a block of at least two frames undone by its free while
\* other allocations stay live.
C5_Witness ==
    /\ ~halted /\ last.op = "free" /\ last.undo
    /\ last.n >= 2
    /\ live # {}
    /\ tree = pre_tree
    /\ tree # NewTree

\* C6: once every live allocation has been freed with its original
\* (n, offset), in any order, every cell of the tree is Unused.
C6_AllFreed ==
    (~halted /\ live = {}) => \A i \in 0..(SIZE - 1) : tree[i] = "Unused"

\* The last allocation is freed by a free that is not the undo of the
\* allocate right before it: the frees came in another order.
C6_Witness ==
    /\ ~halted /\ live = {}
    /\ last.op = "free" /\ ~last.undo /\ last.n >= 2
    /\ tree = NewTree


(***************************************************************************)
(* Claims about mark_used at boot (SpecBoot) and the Allocator             *)
(* (SpecAllocator).                                                        *)
(***************************************************************************)
\* C2: after mark_used(n, o) at boot, no later allocate of any size returns
\* a frame offset inside a marked range [o, o + n).
C2_ReservedNeverReturned ==
    (~halted /\ last.op = "allocate" /\ last.ret >= 0) => last.ret \notin marked

\* C7: the first allocate whose rounded size 2^req_level would take the
\* total of the live rounded sizes above the F free frames of the tree
\* returns the failure sentinel -1.
C7_ExhaustionBound ==
    (/\ ~halted
     /\ last.op = "allocate"
     /\ last.budget + Pow2(get_level_from_num_frames(last.n))
            > Pow2(LEVELS) - Cardinality(marked))
    => last.ret = -1

\* C8: whenever Buddy::allocate returns the negative sentinel,
\* Allocator::allocate(num_pages) returns None, the cast and
\* (page_offset + num_pages) * PAGE_SIZE taken as wrapping 64-bit machine
\* arithmetic.  (With overflow checks the same calls panic instead.)
C8_SentinelIsNone ==
    (/\ build = "release"
     /\ last.op = "Allocator.allocate"
     /\ last.opt # "buddy_panic"
     /\ last.ret < 0)
    => last.opt = "None"

(***************************************************************************)
(* Claims about the mapper and ActivePageTable::with (SpecPaging).         *)
(***************************************************************************)

\* C3: after map_to(page, frame, flags, alloc) succeeds,
\* translate(page.start_address() + off) is Some(frame.start_address() + off)
\* for every offset off of the page.
C3_TranslateAfterMap ==
    (plast.op = "map_to" /\ plast.st = "ok") =>
        \A off \in Offsets :
            translate(mem, cr3, AddressIn(plast.page, off))
                = <<FrameStart(plast.frame) + off>>

\* C4: after unmap(page, alloc) of a page that was mapped returns,
\* translate(page.start_address()) is none, whatever the page's indices.
C4_UnmapRemoves ==
    (plast.op = "unmap" /\ plast.st = "ok" /\ plast.mapped) =>
        translate(mem, cr3, start_address(plast.page)) = <<>>

\* entry 511 of the P4 that CR3 names references that P4 itself
RecursiveMapping ==
    /\ Contains(mem[cr3][ENTRY_COUNT - 1], PRESENT)
    /\ HwFrame(mem[cr3][ENTRY_COUNT - 1]) = cr3

\* C9: when with(inactive, temp_page, f) has returned, entry 511 of the
\* active P4 references the active P4 frame again, a flush-all followed the
\* return of f, and the scratch page is unmapped; and between operations,
\* outside a with, entry 511 always references the active P4.
C9_WithRestores ==
    /\ (ppc = "idle" => RecursiveMapping)
    /\ (plast.op = "with" =>
            /\ RecursiveMapping
            /\ \E i \in DOMAIN trace : trace[i].ev = "flush_all"
            /\ Resolve(mem, cr3, start_address(scratch)) = -1)

\* event j of the last operation invalidates what event i wrote, and f is
\* neither called nor returns between the two
InvalidatedBy(i, j) ==
    /\ j > i
    /\ \/ trace[j].ev = "flush_all"
       \/ trace[i].ev = "zero" /\ trace[j].ev = "flush" /\ trace[j].page = trace[i].page
    /\ \A k \in (i + 1)..(j - 1) : trace[k].ev \notin {"call_f", "return"}

\* C10: every entry write of unmap that removes a mapping is followed, before
\* unmap returns, by a TLB invalidation of the page whose mapping it removed,
\* and the rewrite of P4[511] in with is followed by a flush-all before f is
\* called.
C10_InvalidationFollowsWrite ==
    \A i \in DOMAIN trace :
        (trace[i].ev = "write511" \/ (trace[i].ev = "zero" /\ trace[i].removes)) =>
            \E j \in DOMAIN trace : InvalidatedBy(i, j)

\* the terminal P1 entry of page exists and its word is not zero
TerminalInUse(m, root, page) ==
    /\ P1Of(m, root, page) # <<>>
    /\ ReadEntry(m, root, P1Of(m, root, page)[1], p1_index(page)) # 0

\* C11: map_to for a page whose terminal P1 entry is already in use (whatever
\* frame and flags the earlier map_to wrote, frame 0 with empty flags
\* included) takes the fatal assertion path and leaves every entry as it was.
C11_RemapPanics ==
    [][\A page \in Pages, c \in MapCalls :
          (/\ plast'.op = "map_to" /\ plast'.page = page
           /\ plast'.frame = c[1] /\ plast'.flags = c[2]
           /\ MapTo(page, c[1], c[2])
           /\ TerminalInUse(mem, cr3, page)) =>
              (ppc' = "halted" /\ mem' = mem)]_vars

\* a map_to has panicked on a page whose entry holds frame 0 with no flag
\* but PRESENT, and the entry is still what the earlier map_to wrote
C11_Witness ==
    /\ plast.op = "map_to"
    /\ plast.st = "panic"
    /\ ppc = "halted"
    /\ plast.frame # 0
    /\ TerminalInUse(mem, cr3, plast.page)
    /\ ReadEntry(mem, cr3, P1Of(mem, cr3, plast.page)[1], p1_index(plast.page))
          = EntrySet(0, PRESENT)

(***************************************************************************)
(* Claims about free with arguments no allocate returned (SpecFree).       *)
(***************************************************************************)

\* C12: for every n >= 1 and every frame_number >= 2^LEVELS,
\* free(n, frame_number) panics and changes no cell of the tree.
C12_OutOfRangeFreePanics ==
    [][\A n \in Sizes \ {0}, f \in OutFrames :
          (last'.op = "free_outside" /\ last'.n = n /\ last'.o = f
           /\ FreeOutside(n, f)) => (halted' /\ tree' = tree)]_vars

(***************************************************************************)
(* Claims about the shape of the tree.                                     *)
(***************************************************************************)
InternalNodes == 0..(Pow2(LEVELS) - 2)

\* the state the rule of the data model gives an internal node
RuleState(t, i) ==
    IF t[2 * i + 1] \in {"Used", "Full"} /\ t[2 * i + 2] \in {"Used", "Full"}
    THEN "Full"
    ELSE IF t[2 * i + 1] = "Unused" /\ t[2 * i + 2] = "Unused" THEN "Unused"
    ELSE "Split"

\* C13: at every operation boundary reachable by mark_used, allocate and the
\* matching free, every internal node is Full iff both children are Used or
\* Full, Unused iff both children are Unused, and Split otherwise.
C13_NodeRule ==
    ~halted => \A i \in InternalNodes : tree[i] = RuleState(tree, i)

\* the frames no allocation of L holds
FreeFrames(L) == Frames \ UNION {Interval(a) : a \in L}

\* the offsets of the aligned blocks of 2^req_level frames, all of them free
Candidates(L, n) ==
    {o \in Frames :
        /\ o % Pow2(get_level_from_num_frames(n)) = 0
        /\ \A f \in o..(o + Pow2(get_level_from_num_frames(n)) - 1) :
              f \in FreeFrames(L)}

Lowest(S) == CHOOSE o \in S : \A p \in S : o <= p

\* C14: on a tree reached from the fresh tree by allocate and the matching
\* free, allocate(n) succeeds iff some aligned block of 2^req_level frames
\* is entirely free, and then returns the lowest such offset.
C14_FirstFit ==
    [][\A n \in Sizes :
          (last'.op = "allocate" /\ last'.n = n /\ Allocate(n)) =>
              IF Candidates(live, n) = {}
              THEN ~halted' /\ last'.ret = -1
              ELSE ~halted' /\ last'.ret = Lowest(Candidates(live, n))]_vars

(***************************************************************************)
(* Claims about table creation (SpecPaging).                               *)
(***************************************************************************)

\* the tables on the path of page: P3 (k = 1), P2 (k = 2), P1 (k = 3), as
\* the virtual address the recursive mapping gives each
PathTable(page, k) ==
    CASE k = 1 -> ShiftOr(P4, p4_index(page))
      [] k = 2 -> ShiftOr(ShiftOr(P4, p4_index(page)), p3_index(page))
      [] k = 3 -> ShiftOr(ShiftOr(ShiftOr(P4, p4_index(page)), p3_index(page)),
                          p2_index(page))

\* the index at which the path of page leaves table k
PathIndex(page, k) ==
    CASE k = 1 -> p3_index(page)
      [] k = 2 -> p2_index(page)
      [] k = 3 -> p1_index(page)

\* how many of the P3, P2 and P1 tables of page are absent
AbsentTables(m, root, page) ==
    IF next_table_address(m, root, P4, p4_index(page)) = <<>> THEN 3
    ELSE IF next_table_address(m, root, PathTable(page, 1), p3_index(page)) = <<>>
         THEN 2
    ELSE IF next_table_address(m, root, PathTable(page, 2), p2_index(page)) = <<>>
         THEN 1
    ELSE 0

\* frames taken out of an allocator
Taken(al) == Cardinality({i \in 1..Len(al) : al[i] = NoSlot})

\* C15: a map_to whose allocator does not run out draws from it exactly one
\* frame per absent table of the page's path (3 on a zero P4, 0 when all
\* three exist), and every table it created holds nothing but the entry the
\* walk then wrote.
C15_OneFramePerAbsentTable ==
    [][\A page \in Pages, c \in MapCalls :
          (/\ plast'.op = "map_to" /\ plast'.page = page
           /\ plast'.frame = c[1] /\ plast'.flags = c[2]
           /\ MapTo(page, c[1], c[2])
           /\ Len(pool) - Taken(pool) >= AbsentTables(mem, cr3, page)) =>
              /\ Taken(pool') - Taken(pool) = AbsentTables(mem, cr3, page)
              /\ plast'.drawn = AbsentTables(mem, cr3, page)
              /\ \A k \in (4 - AbsentTables(mem, cr3, page))..3 :
                    \A i \in Idx \ {PathIndex(page, k)} :
                        ReadEntry(mem', cr3, PathTable(page, k), i) = 0]_vars

\* a map_to has completed that found the P3 and P2 tables and created the
\* P1 table, after an earlier one created all three
C15_Witness ==
    /\ plast.op = "map_to"
    /\ plast.st = "ok"
    /\ plast.drawn = 1
    /\ Taken(pool) = 4

\* the terminal P1 entry of page
TerminalEntry(m, root, page) ==
    ReadEntry(m, root, P1Of(m, root, page)[1], p1_index(page))

\* C16: frame_pointer() of an entry with PRESENT set is the one-page frame
\* whose number is (raw & 0x000F_FFFF_FFFF_F000) / 4096, so after
\* set(frame, flags | PRESENT), as map_to does on the terminal entry,
\* frame_pointer() gives back the number of frame.
C16_FramePointerRoundTrip ==
    (plast.op = "map_to" /\ plast.st = "ok") =>
        /\ frame_pointer(TerminalEntry(mem, cr3, plast.page))
              = <<MaskAddress(TerminalEntry(mem, cr3, plast.page)) \div PAGE_SIZE>>
        /\ frame_pointer(TerminalEntry(mem, cr3, plast.page)) = <<plast.frame>>

(***************************************************************************)
(* Claims about the traversal of allocate (SpecSteps).                     *)
(***************************************************************************)

\* C17: from every tree reached by mark_used, allocate and free, and for
\* every n with req_level below LEVELS, the descend-and-backtrack traversal
\* of allocate(n) comes to its end, with a frame index or the sentinel.
C17_AllocateTerminates ==
    (walk.pc \in {"forward", "backward"} /\ walk.requested_level < LEVELS)
        ~> (walk.pc = "done" /\ ~halted /\ walk.ret >= -1)

\* an allocate below the root level has backtracked to the root and failed
C17_Witness ==
    /\ walk.pc = "done"
    /\ walk.requested_level < LEVELS
    /\ walk.ret = -1
    /\ marked # {}

(***************************************************************************)
(* Claims about the temporary page and the inactive table (SpecPaging).    *)
(***************************************************************************)

\* C18: after InactivePageTable::new(frame, active, temp_page) returns, the
\* table in frame has every entry below 511 unused and entry 511
\* referencing frame itself with PRESENT | WRITABLE.
C18_InactiveTableShape ==
    (plast.op = "InactivePageTable.new" /\ plast.st = "ok") =>
        /\ \A i \in Idx \ {ENTRY_COUNT - 1} : is_unused(mem[plast.frame][i])
        /\ mem[plast.frame][ENTRY_COUNT - 1]
              = FrameStart(plast.frame) + PRESENT + WRITABLE

\* InactivePageTable::new has returned, with a scratch page whose p1 and p2
\* indices differ
C18_Witness ==
    /\ plast.op = "InactivePageTable.new"
    /\ plast.st = "ok"
    /\ inactive = plast.frame
    /\ p1_index(scratch) # p2_index(scratch)

\* C19: TemporaryPage.map(frame, active) called while the scratch page is
\* mapped panics and changes no table entry; called while it is unmapped it
\* installs the mapping of the scratch page to frame and returns
\* page.start_address().
C19_TemporaryMapContract ==
    [][\A frame \in TableFrames :
          (/\ plast'.op = "TemporaryPage.map" /\ plast'.frame = frame
           /\ TemporaryPageMap(frame)) =>
              IF translate_page(mem, cr3, scratch) # <<>>
              THEN ppc' = "halted" /\ mem' = mem
              ELSE /\ ppc' # "halted"
                   /\ TerminalInUse(mem', cr3, scratch)
                   /\ TerminalEntry(mem', cr3, scratch)
                         = FrameStart(frame) + WRITABLE + PRESENT
                   /\ start_address(plast'.page) = start_address(scratch)]_vars

(***************************************************************************)
(* Claims about the allocation of the whole arena (Spec).                  *)
(***************************************************************************)

\* C20: on the all-Unused tree allocate(2^LEVELS), which matches at the
\* root, returns frame index 0 and leaves every cell Used, without the
\* parent index (index + 1) / 2 - 1 going below zero.
C20_RootAllocation ==
    (/\ last.op = "allocate"
     /\ get_level_from_num_frames(last.n) = LEVELS
     /\ pre_tree = NewTree) =>
        /\ ~halted
        /\ last.ret = 0
        /\ \A i \in DOMAIN tree : tree[i] = "Used"

(***************************************************************************)
(* Claims about mark_used and Used subtrees (SpecBoot).                    *)
(***************************************************************************)

\* the proper ancestors of node i
RECURSIVE Ancestors(_)
Ancestors(i) == IF i = 0 THEN {} ELSE {ParentOf(i)} \cup Ancestors(ParentOf(i))

LeafOf(frame) == Pow2(LEVELS) - 1 + frame

\* C21: after the first mark_used(n, frame_number), made on the fresh tree
\* with the n frames in range, exactly the n leaves of those frames are Used
\* and every ancestor of a marked leaf has the state the recompute rule
\* gives from its two children; no such ancestor is Unused.
C21_MarkUsedShape ==
    (last.op = "mark_used" /\ booted = 1 /\ ~halted) =>
        /\ \A f \in Frames : tree[LeafOf(f)] = "Used" <=> f \in marked
        /\ \A f \in marked : \A i \in Ancestors(LeafOf(f)) :
              tree[i] = RuleState(tree, i) /\ tree[i] # "Unused"

\* C22: after mark_used at boot and any allocate and matching free, both
\* children of a Used node, and so all its descendants, are Used.
C22_UsedSubtrees ==
    ~halted =>
        \A i \in InternalNodes :
            tree[i] = "Used" => (tree[2 * i + 1] = "Used" /\ tree[2 * i + 2] = "Used")

\* after mark_used, an allocate has taken an internal node while another
\* block is live
C22_Witness ==
    /\ ~halted
    /\ marked # {}
    /\ last.op = "allocate"
    /\ last.ret >= 0
    /\ last.n >= 2
    /\ Cardinality(live) = 2
    /\ \E i \in InternalNodes : tree[i] = "Used"

\* C28: an allocate that returns the failure sentinel leaves every tree
\* cell as it was before the call, in every state reached by mark_used,
\* allocate and free.
C28_FailedAllocateKeepsTree ==
    (last.op = "allocate" /\ last.ret = -1 /\ ~halted) => tree = pre_tree

\* C29: whenever Allocator::allocate returns None the buddy tree is as it
\* was before the call: no block stays Used without a Frame handed out.
C29_NoneKeepsTree ==
    (last.op = "Allocator.allocate" /\ last.opt = "None" /\ ~halted) =>
        tree = pre_tree

(***************************************************************************)
(* Claims about the closure of ActivePageTable::with and about unmap       *)
(* (SpecPaging).                                                           *)
(***************************************************************************)

\* the frames an entry of table frame f names as next tables, entry 511 of
\* a P4 left out
ChildTables(m, f, level) ==
    { HwFrame(m[f][i]) :
        i \in { j \in Idx : /\ ~(level = 4 /\ j = ENTRY_COUNT - 1)
                            /\ Contains(m[f][j], PRESENT)
                            /\ HwFrame(m[f][j]) \in DOMAIN m } }

\* the table frames of the hierarchy whose P4 is frame p4: the P4 and the
\* P3, P2 and P1 tables under its entries 0..510
HierarchyTables(m, p4) ==
    LET t3 == ChildTables(m, p4, 4)
        t2 == UNION { ChildTables(m, f, 3) : f \in t3 }
        t1 == UNION { ChildTables(m, f, 2) : f \in t2 }
    IN  {p4} \cup t3 \cup t2 \cup t1

\* C24: while the closure of with runs, every walk through the recursive
\* address lands in the inactive hierarchy: translate_page answers what the
\* inactive hierarchy holds, a map_to or unmap of the closure changes only
\* tables reachable from the inactive P4, and the active P4 and its
\* sub-tables are unchanged.
C24_ClosureWalksInactive ==
    [][(/\ ppc = "in_with"
        /\ plast'.op \in {"map_to", "unmap", "translate"}) =>
          /\ \A page \in Pages :
                translate_page(mem, cr3, page) = translate_page(mem, inactive, page)
          /\ \A f \in HierarchyTables(mem, cr3) : mem'[f] = mem[f]
          /\ \A f \in PhysFrames :
                mem'[f] # mem[f] => f \in HierarchyTables(mem', inactive)]_vars

\* the closure has mapped a page, creating three tables under entry 0 of
\* the inactive P4, while the active P4 holds the tables of the scratch page
\* and nothing under its entry 0
C24_Witness ==
    /\ ppc = "in_with"
    /\ plast.op = "map_to"
    /\ plast.st = "ok"
    /\ plast.drawn = 3
    /\ Contains(mem[cr3][1], PRESENT)
    /\ mem[cr3][0] = 0
    /\ Contains(mem[inactive][0], PRESENT)
    /\ Cardinality(HierarchyTables(mem, cr3)) = 4
    /\ Cardinality(HierarchyTables(mem, inactive)) = 4

\* C25: with the stash filled with three frames, a TemporaryPage.map made
\* on the unmapped scratch page while entry 511 of the active P4 references
\* the active P4 (alone, or as the first step of InactivePageTable::new or
\* with) never finds the stash empty: it takes one frame per absent table
\* of the scratch page's path, and over all calls at most three.
C25_StashSuffices ==
    [][(/\ plast'.op \in {"TemporaryPage.map", "InactivePageTable.new", "with.f"}
        /\ RecursiveMapping
        /\ translate_page(mem, cr3, scratch) = <<>>) =>
          /\ plast'.st = "ok"
          /\ Taken(stash') - Taken(stash) = AbsentTables(mem, cr3, scratch)
          /\ Taken(stash') <= 3]_vars

\* a second TemporaryPage.map after an unmap: the three tables exist, the
\* stash is empty and is not asked
C25_Witness ==
    /\ plast.op = "TemporaryPage.map"
    /\ plast.st = "ok"
    /\ plast.drawn = 0
    /\ Taken(stash) = 3
    /\ RecursiveMapping
    /\ translate_page(mem, cr3, scratch) # <<>>

\* C26: when TemporaryPage.unmap has returned (called alone, or as the last
\* step of InactivePageTable::new) the scratch page is not mapped, whatever
\* its p1 and p2 indices, so the next TemporaryPage.map does not trip its
\* assertion.
C26_TemporaryUnmapUnmaps ==
    (/\ plast.op \in {"TemporaryPage.unmap", "InactivePageTable.new"}
     /\ plast.st = "ok") =>
        translate_page(mem, cr3, scratch) = <<>>

\* C27: unmap(page) changes the translation of no page other than page.
C27_UnmapLeavesOthers ==
    [][\A page \in Pages :
          (/\ plast'.op = "unmap" /\ plast'.page = page /\ plast'.st = "ok"
           /\ Unmap(page)) =>
              \A q \in Pages \ {page} :
                  translate_page(mem', cr3, q) = translate_page(mem, cr3, q)]_vars

(***************************************************************************)
(* Claims about the byte-scale BuddyAllocator (SpecByte).                  *)
(***************************************************************************)

\* the level of node index: BA_LEVELS at the root, 0 at the leaves
RECURSIVE BA_LevelOf(_)
BA_LevelOf(index) ==
    IF index = 0 THEN BA_LEVELS ELSE BA_LevelOf((index + 1) \div 2 - 1) - 1

\* no block of 2^level units is free: no node at that level or above is
\* Unused
BA_NoFreeBlock(t, level) ==
    \A i \in DOMAIN t : BA_LevelOf(i) >= level => t[i] # "Unused"

\* C23: a BuddyAllocator.allocate(s) that starts when no free block of the
\* requested size exists comes to its end and returns the failure sentinel
\* -1, without looping and without an index below the root.
C23_ExhaustedReturnsSentinel ==
    (/\ ba.pc = "forward" /\ ba.index = 0 /\ ba.current_level = BA_LEVELS
     /\ BA_NoFreeBlock(ba.tree, ba.requested_level))
        ~> (ba.pc = "done" /\ ba.ret = -1)

(***************************************************************************)
(* Claims about the VGA Writer (SpecVga).                                  *)
(***************************************************************************)

Blank(w) == [ascii_character |-> Space, color_code |-> w.color_code]

\* C30: after any sequence of write_byte calls from row 0, col 0: row stays
\* at most BUFFER_HEIGHT - 1 and col at most BUFFER_WIDTH, every cell write
\* lands inside the buffer, and a line-feed taken on the last row copies
\* each row r >= 1 to row r - 1, blanks the last row, keeps row and resets
\* col to 0.
C30_WriterStaysInBuffer ==
    /\ [](writer.row <= BUFFER_HEIGHT - 1 /\ writer.col <= BUFFER_WIDTH)
    /\ [][\A byte \in Bytes :
            (wlast'.byte = byte /\ WriteByte(byte)) =>
              /\ ~wlast'.panic
              /\ wlast'.wrote =>
                    wlast'.wrow < BUFFER_HEIGHT /\ wlast'.wcol < BUFFER_WIDTH
              /\ (wlast'.fed /\ writer.row = BUFFER_HEIGHT - 1) =>
                    /\ \A r \in 1..(BUFFER_HEIGHT - 1) :
                          wlast'.feed.chars[r - 1] = writer.chars[r]
                    /\ \A c \in 0..(BUFFER_WIDTH - 1) :
                          wlast'.feed.chars[BUFFER_HEIGHT - 1][c] = Blank(writer)
                    /\ wlast'.feed.row = BUFFER_HEIGHT - 1
                    /\ wlast'.feed.col = 0
                    /\ writer' = IF byte = LineFeed THEN wlast'.feed
                                 ELSE WriteCell(wlast'.feed, byte)]_vars

\* a line-feed taken on the last row by a printable byte at the end of a
\* full line, with written rows above
C30_Witness ==
    /\ wlast.op = "write_byte"
    /\ wlast.fed
    /\ wlast.byte # LineFeed
    /\ wlast.pre.row = BUFFER_HEIGHT - 1
    /\ wlast.pre.col = BUFFER_WIDTH
    /\ wlast.pre.chars[1][0].ascii_character = 98
    /\ writer.chars[0][0].ascii_character = 98
    /\ writer.row = BUFFER_HEIGHT - 1
    /\ writer.col = 1

====
